---- MODULE Spec2Model ----
(***************************************************************************)
(* Model of src/src/main.cc: a Monte-Carlo estimate of nickname collision  *)
(* probability.  Characters are ASCII codes, strings are sequences of      *)
(* codes, the word list file is the sequence of its bytes.  A pseudo       *)
(* random engine is its seed (the output sequence the seed determines,     *)
(* read cyclically) and its position in that sequence.                     *)
(***************************************************************************)
EXTENDS Integers, Sequences, FiniteSets, TLC

VARIABLES
    file,           \* the bytes of the word list file main opens, or NoFile
    pcMain,         \* main's position: load, spawn, join, report, exit, ...
    mainIdx,        \* main's loop index i (spawn loop, join loop)
    word_db,        \* main's word_db: length |-> sequence of words
    wpc,            \* each worker's position
    engine,         \* each worker's pesudo_random_engine
    nickname_db,    \* each worker's nickname_db
    tries,          \* each worker's trial loop index i
    num_collisions, \* each worker's num_collisions
    test_results,   \* main's test_results
    logged,         \* what main has logged with the results
    lastDraw,       \* history: a worker's last call of sample_nickname
    popSnapshot,    \* history: nickname_db as the population loop left it
    trialDrawn,     \* history: the nicknames a worker drew in its trial loop
    ret             \* the value of the last direct call of a sampler function

vars == <<file, pcMain, mainIdx, word_db, wpc, engine, nickname_db, tries,
          num_collisions, test_results, logged, lastDraw, popSnapshot,
          trialDrawn, ret>>

(* ------------------------------ constants ------------------------------ *)

MAX_NICKNAME_LEN == 12

\* Scaled down from 10'000'000 and 50'000'000.
NUM_INITIAL_NICKNAMES == 2

NUM_TRIES == 2

\* std::size_t's largest value, scaled to the integers TLC has.
SIZE_MAX == 2147483646 + 1

\* '\n', std::getline's delimiter.
NL == 10

\* The file variable when the path cannot be opened.
NoFile == [open |-> FALSE, bytes |-> <<>>]

OpenFile(bytes) == [open |-> TRUE, bytes |-> bytes]

\* A worker's engine before it has made one.
NoEngine == [seed |-> <<>>, pos |-> 0, bits |-> 0]

NoRet == [op |-> "none"]

Min(a, b) == IF a < b THEN a ELSE b

\* a - b in std::size_t: wraps below zero.
SzSub(a, b) == IF a >= b THEN a - b ELSE SIZE_MAX - (b - a) + 1

(* ----------------------------- load_word_db ---------------------------- *)

\* std::getline(f, line) from byte pos: the characters up to the next '\n',
\* which is consumed; eof when the input ends before a '\n' is found.
RECURSIVE getline(_, _, _)
getline(f, pos, line) ==
    IF pos > Len(f) THEN [line |-> line, pos |-> pos, eof |-> TRUE]
    ELSE IF f[pos] = NL THEN [line |-> line, pos |-> pos + 1, eof |-> FALSE]
    ELSE getline(f, pos + 1, Append(line, f[pos]))

\* db[n].emplace_back(std::string_view(line.c_str() + 1, n)), n = length - 2.
emplace_word(db, line, n) ==
    IF n < MAX_NICKNAME_LEN + 1
    THEN [db EXCEPT ![n] = Append(@, SubSeq(line, 2, Len(line) - 1))]
    ELSE db

\* The body of load_word_db's loop for one line.
load_line(db, line) == emplace_word(db, line, SzSub(Len(line), 2))

RECURSIVE load_loop(_, _, _)
\* for (line; !std::getline(f, line).eof();) with g what getline returned.
load_next(f, db, g) == IF g.eof THEN db ELSE load_loop(f, g.pos, load_line(db, g.line))

load_loop(f, pos, db) == load_next(f, db, getline(f, pos, <<>>))

load_word_db(f) == load_loop(f, 1, [L \in 0..MAX_NICKNAME_LEN |-> <<>>])

(* ------------------------------- engines ------------------------------- *)

\* std::mt19937(seed) and std::mt19937_64(seed): a newly seeded engine.
NewEngine(seed, bits) == [seed |-> seed, pos |-> 0, bits |-> bits]

\* random_engine(): the next output, and the engine advanced.
EngineNext(e) ==
    [val |-> e.seed[e.pos + 1], e |-> [e EXCEPT !.pos = (e.pos + 1) % Len(e.seed)]]

\* std::uniform_int_distribution(a, b) applied to the engine output x.
Uniform(a, b, x) == a + (x % (b - a + 1))

(* ------------------------------- sampler ------------------------------- *)

tolower(c) == IF c >= 65 /\ c <= 90 THEN c + 32 ELSE c

toupper(c) == IF c >= 97 /\ c <= 122 THEN c - 32 ELSE c

\* '9' - '0' + 1
NUM_DIGITS == 57 - 48 + 1

\* ('Z' - 'A' + 1) * 2
NUM_ALPHAS == (90 - 65 + 1) * 2

\* sample_ascii's return value for the drawn ch.
ascii_of(ch) ==
    IF ch < NUM_DIGITS THEN 48 + ch
    ELSE IF ch - NUM_DIGITS <= 90 - 65 THEN 65 + (ch - NUM_DIGITS)
    ELSE 97 + ((ch - NUM_DIGITS) - (90 - 65 + 1))

\* sample_ascii with d the engine's output.
ascii_drawn(d) == [val |-> ascii_of(Uniform(0, NUM_ALPHAS + NUM_DIGITS - 1, d.val)), e |-> d.e]

sample_ascii(e) == ascii_drawn(EngineNext(e))

lower_drawn(d) == [val |-> Uniform(97, 122, d.val), e |-> d.e]

sample_ascii_lower(e) == lower_drawn(EngineNext(e))

\* std::reduce over the buckets [from, from + n): the sum of their sizes.
RECURSIVE reduce_sizes(_, _, _)
reduce_sizes(db, from, n) ==
    IF n <= 0 THEN 0 ELSE Len(db[from]) + reduce_sizes(db, from + 1, n - 1)

\* sample_word's loop: while (it->size() <= idx) idx -= (it++)->size().
\* Stepping the iterator past the last bucket is undefined behaviour.
RECURSIVE walk(_, _, _)
walk(db, it, idx) ==
    IF it > MAX_NICKNAME_LEN THEN [ub |-> TRUE, it |-> it, idx |-> idx]
    ELSE IF Len(db[it]) <= idx THEN walk(db, it + 1, idx - Len(db[it]))
    ELSE [ub |-> FALSE, it |-> it, idx |-> idx]

\* return it->at(idx), with w where the loop stopped; at() throws when idx
\* is out of range.
word_at(db, e, w) ==
    IF w.ub THEN [status |-> "ub", e |-> e]
    ELSE IF ~(w.idx < Len(db[w.it])) THEN [status |-> "throw", e |-> e]
    ELSE [status |-> "ok", val |-> db[w.it][w.idx + 1], e |-> e, it |-> w.it]

\* Mutant of word_drawn: the walk starts at the first bucket, not at min_len.
word_drawn_from_begin(db, min_len, num_candidates, d) ==
    word_at(db, d.e, walk(db, 0, Uniform(0, num_candidates - 1, d.val)))

\* sample_word from the draw of idx on, d the engine's output.
word_drawn(db, min_len, num_candidates, d) ==
    word_at(db, d.e, walk(db, min_len, Uniform(0, num_candidates - 1, d.val)))

\* Mutant of word_among: no test of num_candidates; with none, the index is
\* drawn from all of std::size_t.
word_among_unchecked(e, db, min_len, num_candidates) ==
    IF num_candidates = 0
    THEN word_at(db, EngineNext(e).e, walk(db, min_len, EngineNext(e).val))
    ELSE word_drawn(db, min_len, num_candidates, EngineNext(e))

\* sample_word after num_candidates is computed.
word_among(e, db, min_len, num_candidates) ==
    IF num_candidates = 0 THEN [status |-> "throw", e |-> e]
    ELSE word_drawn(db, min_len, num_candidates, EngineNext(e))

sample_word(e, db, min_len, max_len) ==
    word_among(e, db, min_len, reduce_sizes(db, min_len, max_len - min_len + 1))

\* std::round(length / mangling_factor), the factor given in tenths.
mangling_magnitude(length, factor10) == (20 * length + factor10) \div (2 * factor10)

\* Mutant of swap_pop: the chosen index stays in the vector.
swap_no_pop(indices, idx) == [indices EXCEPT ![idx + 1] = indices[Len(indices)]]

\* std::swap(indices[idx], indices.back()); indices.pop_back(): what is left.
swap_pop(indices, idx) ==
    SubSeq([indices EXCEPT ![idx + 1] = indices[Len(indices)]], 1, Len(indices) - 1)

lower_of(a) == [val |-> tolower(a.val), e |-> a.e]

\* The character written at position pos.
mangle_char(pos, e) == IF pos = 0 THEN sample_ascii_lower(e) ELSE lower_of(sample_ascii(e))

\* piece[idx] = c.  hits records the positions replaced so far.
mangle_put(st, pos, rest, c) ==
    [piece |-> [st.piece EXCEPT ![pos + 1] = c.val], indices |-> rest,
     hits |-> Append(st.hits, pos), e |-> c.e, ub |-> FALSE]

mangle_at(st, idx, e) ==
    mangle_put(st, st.indices[idx + 1], swap_pop(st.indices, idx),
               mangle_char(st.indices[idx + 1], e))

mangle_drawn(st, d) == mangle_at(st, Uniform(0, Len(st.indices) - 1, d.val), d.e)

\* One pass of sample_and_mangle_word's loop body.
mangle_step(st) == mangle_drawn(st, EngineNext(st.e))

\* while (0 < magling_magnitude--).  Drawing from an empty indices vector
\* indexes out of bounds: undefined behaviour.
RECURSIVE mangle_loop(_, _)
mangle_loop(st, magnitude) ==
    IF ~(0 < magnitude) THEN st
    ELSE IF Len(st.indices) = 0 THEN [st EXCEPT !.ub = TRUE]
    ELSE mangle_loop(mangle_step(st), magnitude - 1)

\* auto indices = std::vector<sz>(piece.length()); std::iota(..., 0)
iota(n) == [k \in 1..n |-> k - 1]

\* return piece, with m the loop's last state; word is the word sampled.
mangled(word, m) ==
    IF m.ub THEN [status |-> "ub", e |-> m.e]
    ELSE [status |-> "ok", val |-> m.piece, e |-> m.e, word |-> word, hits |-> m.hits]

\* sample_and_mangle_word after sample_word returned s.
mangle_word(s, factor10) ==
    IF s.status # "ok" THEN [status |-> s.status, e |-> s.e]
    ELSE mangled(s.val,
                 mangle_loop([piece |-> s.val, indices |-> iota(Len(s.val)),
                              hits |-> <<>>, e |-> s.e, ub |-> FALSE],
                             mangling_magnitude(Len(s.val), factor10)))

sample_and_mangle_word(e, db, min_len, max_len, factor10) ==
    mangle_word(sample_word(e, db, min_len, max_len), factor10)

(* --------------------------- sample_nickname --------------------------- *)

SAMPLE_NICKNAME_OPT == [min_len |-> 8, max_len |-> 8, min_word_len |-> 3, max_word_len |-> 8]

\* The mangling factor sample_nickname passes, 2.7, in tenths.
MANGLING_FACTOR_10 == 27

\* for (--chance; 0 < chance; --chance) piece.push_back(sample_ascii(e)),
\* entered with chance already decremented.
RECURSIVE fill_random(_, _, _)
fill_push(a, piece, chance) == fill_random(a.e, Append(piece, a.val), chance - 1)

fill_random(e, piece, chance) ==
    IF ~(0 < chance) THEN [val |-> piece, e |-> e]
    ELSE fill_push(sample_ascii(e), piece, chance)

\* pieces.emplace_back(std::move(piece)) after the fill, which leaves chance 0.
put_random_piece(st, f) == [st EXCEPT !.e = f.e, !.chance = 0, !.pieces = Append(@, f.val)]

fill_piece(st, c) == put_random_piece(st, fill_random(c.e, <<c.val>>, st.chance - 1))

\* The branch chance < opt.min_word_len: one piece of random characters.
random_piece(st) == fill_piece(st, sample_ascii_lower(st.e))

\* chance -= piece.length(); piece[0] = toupper(piece[0]); emplace_back.
\* A piece longer than the budget wraps chance (std::size_t); the loop would
\* then run on for about SIZE_MAX characters, and the model stops there.
put_word_piece(st, m) ==
    IF m.status # "ok" THEN [st EXCEPT !.status = m.status, !.e = m.e]
    ELSE IF Len(m.val) = 0 THEN [st EXCEPT !.status = "ub", !.e = m.e]
    ELSE [st EXCEPT !.e = m.e,
                    !.chance = SzSub(st.chance, Len(m.val)),
                    !.status = IF Len(m.val) > st.chance THEN "underflow" ELSE "ok",
                    !.pieces = Append(@, [m.val EXCEPT ![1] = toupper(m.val[1])])]

\* Mutant of word_max_len: the budget left does not bound the word.
word_max_len_unbounded(opt, chance) == opt.max_word_len

\* The largest word length the branch asks sample_and_mangle_word for.
word_max_len(opt, chance) == Min(opt.max_word_len, chance)

\* The other branch: one mangled word, its first letter in upper case.
word_piece(st, db, opt) ==
    put_word_piece(st, sample_and_mangle_word(st.e, db, opt.min_word_len,
                                              word_max_len(opt, st.chance),
                                              MANGLING_FACTOR_10))

\* while (0 < chance) { ... }
RECURSIVE piece_loop(_, _, _)
piece_loop(st, db, opt) ==
    IF st.status # "ok" \/ ~(0 < st.chance) THEN st
    ELSE IF st.chance < opt.min_word_len THEN piece_loop(random_piece(st), db, opt)
    ELSE piece_loop(word_piece(st, db, opt), db, opt)

\* std::shuffle(first, last, g): for each i from 1, swap element i with the
\* element at a position drawn uniformly from [0, i].
RECURSIVE shuffle(_, _, _)
shuffle_swap(e, p, i, j) ==
    shuffle(e, [p EXCEPT ![i + 1] = p[j + 1], ![j + 1] = p[i + 1]], i + 1)

shuffle_drawn(d, p, i) == shuffle_swap(d.e, p, i, Uniform(0, i, d.val))

shuffle(e, p, i) ==
    IF i >= Len(p) THEN [val |-> p, e |-> e] ELSE shuffle_drawn(EngineNext(e), p, i)

\* std::accumulate(pieces, std::string(), +)
RECURSIVE accumulate(_)
accumulate(p) == IF p = <<>> THEN <<>> ELSE Head(p) \o accumulate(Tail(p))

\* return std::accumulate(...) after the shuffle returned s.  target and
\* pieces record the drawn length and the pieces before the shuffle.
joined(target, st, s) ==
    [status |-> "ok", val |-> accumulate(s.val), e |-> s.e, target |-> target,
     pieces |-> st.pieces, chance |-> st.chance]

\* sample_nickname after its loop ended in st.
shuffled(target, st) ==
    IF st.status # "ok"
    THEN [status |-> st.status, e |-> st.e, target |-> target, pieces |-> st.pieces,
          chance |-> st.chance]
    ELSE joined(target, st, shuffle(st.e, st.pieces, 1))

\* sample_nickname after chance is drawn.
pieces_for(e, chance, db, opt) ==
    shuffled(chance,
             piece_loop([e |-> e, chance |-> chance, pieces |-> <<>>, status |-> "ok"],
                        db, opt))

nickname_drawn(d, db, opt) == pieces_for(d.e, Uniform(opt.min_len, opt.max_len, d.val), db, opt)

sample_nickname(e, db, opt) == nickname_drawn(EngineNext(e), db, opt)

(* -------------------------------- inputs ------------------------------- *)

\* Most lines of a word list file of the load specification.
MaxLines == 2

\* Outputs per seed of the engines the sampler functions are called with.
SeedLen == 4

abc == <<97, 98, 99>>

dog == <<100, 111, 103>>

hello == <<104, 101, 108, 108, 111>>

mangrove == <<109, 97, 110, 103, 114, 111, 118, 101>>

nickname == <<110, 105, 99, 107, 110, 97, 109, 101>>

twelve == <<97, 98, 99, 100, 101, 102, 103, 104, 105, 106, 107, 108>>

thirteen == twelve \o <<109>>

\* A word as the word list holds it: quoted, on a line of its own.
Quoted(w) == <<34>> \o w \o <<34>>

Line(w) == Quoted(w) \o <<NL>>

LoadLines ==
    {Line(abc), Line(hello), Line(<<>>), Line(twelve), Line(thirteen), <<NL>>, <<120, NL>>}

\* What may follow the last '\n' of a file: nothing, or an entry without one.
LoadTails == {<<>>, Quoted(dog), <<120>>}

RECURSIVE FilesOf(_)
FilesOf(n) ==
    IF n = 0 THEN {<<>>}
    ELSE FilesOf(n - 1) \cup {f \o l : f \in FilesOf(n - 1), l \in LoadLines}

LoadFiles == {OpenFile(f \o t) : f \in FilesOf(MaxLines), t \in LoadTails} \cup {NoFile}

FileRich == Line(abc) \o Line(dog) \o Line(hello) \o Line(mangrove) \o Line(nickname)

FileMangrove == Line(mangrove)

FileHello == Line(hello)

FileShort == Line(<<100, 101>>) \o Line(<<>>) \o Line(thirteen)

MainFiles == {OpenFile(f) : f \in {FileRich, FileMangrove, FileHello, <<>>}} \cup {NoFile}

SamplerFiles ==
    {OpenFile(f) : f \in {FileRich, FileMangrove, FileHello, FileShort, Line(abc) \o Line(hello)}}

\* Engine outputs: RawA and RawB are 0 modulo every range the sampler draws
\* from over a corpus of one eight letter word (1, 8, 7, 6, 26, 62).
RawA == 8 * 7 * 3 * 13 * 31

RawB == 2 * RawA

\* The seeds std::random_device gives the experiments: each the output
\* sequence it determines.
MainSeeds == {<<0, RawA, 0>>, <<RawA, RawB, 0>>}

SamplerSeeds == [1..SeedLen -> {0, 1, 11}]

(* ------------------------------ experiments ---------------------------- *)

\* main's tests vector: case01, case03, case02, case04.
Workers == 0..3

Reuse(w) == w \in {0, 1}

Bits(w) == IF w \in {0, 2} THEN 32 ELSE 64

\* Mutant of PopulationContinues: the loop runs once more at the target.
PopulationContinuesAtTarget(w) == Cardinality(nickname_db[w]) <= NUM_INITIAL_NICKNAMES

\* Mutant of PopulationContinues: the loop ends at the first nickname.
PopulationUntilNonEmpty(w) == Cardinality(nickname_db[w]) < 1

\* while (nickname_db.size() < NUM_INITIAL_NICKNAMES)
PopulationContinues(w) == Cardinality(nickname_db[w]) < NUM_INITIAL_NICKNAMES

\* The engine a loop body passes to sample_nickname: the one made before the
\* loops (case01, case03), or one made and seeded in the body (case02, case04).
\* Mutant of EngineForDraw: every variant makes its engine in the loop body.
EngineAlwaysFresh(w, seed) == [e |-> NewEngine(seed, Bits(w)), seeded |-> TRUE]

\* seeded tells whether the body made and seeded it.
EngineForDraw(w, seed) ==
    IF Reuse(w) THEN [e |-> engine[w], seeded |-> FALSE]
    ELSE [e |-> NewEngine(seed, Bits(w)), seeded |-> TRUE]

\* The record of a call: the loop it was made in, the engine passed, whether
\* the body made and seeded that engine, the value returned, and whether
\* nickname_db held that value already.
Drawn(w, phase, d, r) ==
    [phase |-> phase, e |-> d.e, seeded |-> d.seeded, val |-> r.val,
     known |-> r.val \in nickname_db[w]]

NoDraw == [phase |-> "none"]

\* What std::random_device may return where a loop body asks it.
SeedChoices(w) == IF Reuse(w) THEN {engine[w].seed} ELSE MainSeeds

\* nickname_db.emplace(nickname)
emplace(db, nick) == db \cup {nick}

\* nickname_db.contains(nickname)
contains(db, nick) == nick \in db

\* An exception leaves a thread's function: std::terminate ends the process.
Terminate ==
    /\ pcMain' = "terminated"
    /\ UNCHANGED <<file, mainIdx, word_db, wpc, engine, nickname_db, tries, num_collisions,
                   test_results, logged, lastDraw, popSnapshot, trialDrawn, ret>>

Alive == pcMain \in {"spawn", "join"}

\* The function's first statements, up to the population loop.
Start(w) ==
    /\ Alive /\ wpc[w] = "start"
    /\ \E seed \in MainSeeds :
          IF Reuse(w)
          THEN engine' = [engine EXCEPT ![w] = NewEngine(seed, Bits(w))]
          ELSE UNCHANGED engine
    /\ nickname_db' = [nickname_db EXCEPT ![w] = {}]
    /\ wpc' = [wpc EXCEPT ![w] = "populate"]
    /\ UNCHANGED <<file, pcMain, mainIdx, word_db, tries, num_collisions, test_results,
                   logged, lastDraw, popSnapshot, trialDrawn, ret>>

\* The population loop's body after sample_nickname(d.e, ...) returned r.
Populated(w, d, r) ==
    IF r.status = "ok"
    THEN /\ nickname_db' = [nickname_db EXCEPT ![w] = emplace(@, r.val)]
         /\ engine' = [engine EXCEPT ![w] = r.e]
         /\ lastDraw' = [lastDraw EXCEPT ![w] = Drawn(w, "populate", d, r)]
         /\ UNCHANGED <<file, pcMain, mainIdx, word_db, wpc, tries, num_collisions,
                        test_results, logged, popSnapshot, trialDrawn, ret>>
    ELSE Terminate

PopulateWith(w, d) == Populated(w, d, sample_nickname(d.e, word_db, SAMPLE_NICKNAME_OPT))

\* One pass of the population loop.
Populate(w) ==
    /\ Alive /\ wpc[w] = "populate" /\ PopulationContinues(w)
    /\ \E seed \in SeedChoices(w) : PopulateWith(w, EngineForDraw(w, seed))

\* The population loop ends: auto num_collisions = sz(); auto i = sz().
BeginTrial(w) ==
    /\ Alive /\ wpc[w] = "populate" /\ ~PopulationContinues(w)
    /\ wpc' = [wpc EXCEPT ![w] = "trial"]
    /\ num_collisions' = [num_collisions EXCEPT ![w] = 0]
    /\ tries' = [tries EXCEPT ![w] = 0]
    /\ popSnapshot' = [popSnapshot EXCEPT ![w] = nickname_db[w]]
    /\ UNCHANGED <<file, pcMain, mainIdx, word_db, engine, nickname_db, test_results,
                   logged, lastDraw, trialDrawn, ret>>

\* Mutant of TrialDb: the trial loop inserts what it draws.
TrialDbInserting(db, nick) == db \cup {nick}

\* nickname_db after one pass of the trial loop that drew nick.
TrialDb(db, nick) == db

\* The trial loop's body after sample_nickname(d.e, ...) returned r.
Tried(w, d, r) ==
    IF r.status = "ok"
    THEN /\ num_collisions' = [num_collisions EXCEPT ![w] =
                                  IF contains(nickname_db[w], r.val) THEN @ + 1 ELSE @]
         /\ nickname_db' = [nickname_db EXCEPT ![w] = TrialDb(@, r.val)]
         /\ tries' = [tries EXCEPT ![w] = @ + 1]
         /\ engine' = [engine EXCEPT ![w] = r.e]
         /\ lastDraw' = [lastDraw EXCEPT ![w] = Drawn(w, "trial", d, r)]
         /\ trialDrawn' = [trialDrawn EXCEPT ![w] = Append(@, r.val)]
         /\ UNCHANGED <<file, pcMain, mainIdx, word_db, wpc, test_results, logged,
                        popSnapshot, ret>>
    ELSE Terminate

TryWith(w, d) == Tried(w, d, sample_nickname(d.e, word_db, SAMPLE_NICKNAME_OPT))

\* One pass of the trial loop.
Trial(w) ==
    /\ Alive /\ wpc[w] = "trial" /\ tries[w] < NUM_TRIES
    /\ \E seed \in SeedChoices(w) : TryWith(w, EngineForDraw(w, seed))

\* The tuple a worker writes to out: the trials, the collisions and their
\* percentage, the quotient kept as numerator and denominator.
Result(collisions) ==
    [trials |-> NUM_TRIES, collisions |-> collisions,
     percent |-> [num |-> collisions * 100, den |-> NUM_TRIES]]

\* The trial loop ends: the worker writes its result and returns.
Finish(w) ==
    /\ Alive /\ wpc[w] = "trial" /\ ~(tries[w] < NUM_TRIES)
    /\ test_results' = [test_results EXCEPT ![w] = Result(num_collisions[w])]
    /\ wpc' = [wpc EXCEPT ![w] = "done"]
    /\ UNCHANGED <<file, pcMain, mainIdx, word_db, engine, nickname_db, tries,
                   num_collisions, logged, lastDraw, popSnapshot, trialDrawn, ret>>

(* --------------------------------- main -------------------------------- *)

\* main's word_db before load_word_db has returned.
NoDb == [L \in 0..MAX_NICKNAME_LEN |-> <<>>]

\* print_about_expriment_env: the bucket sizes.
EnvInfo(db) == [L \in 0..MAX_NICKNAME_LEN |-> Len(db[L])]

\* word_db = load_word_db(path); print_about_expriment_env(word_db).
Load ==
    /\ pcMain = "load"
    /\ IF ~file.open
       THEN /\ pcMain' = "exit_failure"
            /\ UNCHANGED <<word_db, logged>>
       ELSE /\ word_db' = load_word_db(file.bytes)
            /\ logged' = Append(logged, EnvInfo(word_db'))
            /\ pcMain' = "spawn"
    /\ UNCHANGED <<file, mainIdx, wpc, engine, nickname_db, tries, num_collisions,
                   test_results, lastDraw, popSnapshot, trialDrawn, ret>>

\* testers.emplace_back(std::thread(tests[i].first, ...)), and the loop's end.
Spawn ==
    /\ pcMain = "spawn" /\ ret.op = "none"
    /\ wpc' = [wpc EXCEPT ![mainIdx] = "start"]
    /\ IF mainIdx + 1 < Cardinality(Workers)
       THEN mainIdx' = mainIdx + 1 /\ UNCHANGED pcMain
       ELSE mainIdx' = 0 /\ pcMain' = "join"
    /\ UNCHANGED <<file, word_db, engine, nickname_db, tries, num_collisions,
                   test_results, logged, lastDraw, popSnapshot, trialDrawn, ret>>

\* Mutant of Joinable: join returns at once (a detached thread).
JoinableAtOnce(i) == TRUE

\* Whether testers[i].join() may return.
Joinable(i) == wpc[i] = "done"

\* std::ranges::for_each(testers, &std::thread::join): one join.
Join ==
    /\ pcMain = "join" /\ Joinable(mainIdx)
    /\ IF mainIdx + 1 < Cardinality(Workers)
       THEN mainIdx' = mainIdx + 1 /\ UNCHANGED pcMain
       ELSE mainIdx' = 0 /\ pcMain' = "report"
    /\ UNCHANGED <<file, word_db, wpc, engine, nickname_db, tries, num_collisions,
                   test_results, logged, lastDraw, popSnapshot, trialDrawn, ret>>

\* The loop that logs every result; return EXIT_SUCCESS.
Report ==
    /\ pcMain = "report"
    /\ logged' = logged \o [i \in 1..Cardinality(Workers) |-> test_results[i - 1]]
    /\ pcMain' = "exit"
    /\ UNCHANGED <<file, mainIdx, word_db, wpc, engine, nickname_db, tries, num_collisions,
                   test_results, lastDraw, popSnapshot, trialDrawn, ret>>

(* ------------------------ calls of the sampler ------------------------- *)

Lengths == 0..MAX_NICKNAME_LEN

SamplerVarsUnchanged ==
    UNCHANGED <<file, pcMain, mainIdx, word_db, wpc, engine, nickname_db, tries,
                num_collisions, test_results, logged, lastDraw, popSnapshot,
                trialDrawn>>

CallSampleWord ==
    /\ pcMain = "spawn" /\ mainIdx = 0 /\ ret.op = "none"
    /\ \E seed \in SamplerSeeds, min_len \in Lengths :
          \E max_len \in min_len..MAX_NICKNAME_LEN :
             ret' = [op |-> "sample_word", e |-> NewEngine(seed, 32),
                     min_len |-> min_len, max_len |-> max_len,
                     r |-> sample_word(NewEngine(seed, 32), word_db, min_len, max_len)]
    /\ SamplerVarsUnchanged

CallSampleAndMangleWord ==
    /\ pcMain = "spawn" /\ mainIdx = 0 /\ ret.op = "none"
    /\ \E seed \in SamplerSeeds, min_len \in Lengths :
          \E max_len \in min_len..MAX_NICKNAME_LEN :
             ret' = [op |-> "sample_and_mangle_word", e |-> NewEngine(seed, 32),
                     min_len |-> min_len, max_len |-> max_len,
                     r |-> sample_and_mangle_word(NewEngine(seed, 32), word_db, min_len,
                                                  max_len, MANGLING_FACTOR_10)]
    /\ SamplerVarsUnchanged

CallSampleNickname ==
    /\ pcMain = "spawn" /\ mainIdx = 0 /\ ret.op = "none"
    /\ \E seed \in SamplerSeeds :
          ret' = [op |-> "sample_nickname", e |-> NewEngine(seed, 32),
                  r |-> sample_nickname(NewEngine(seed, 32), word_db, SAMPLE_NICKNAME_OPT)]
    /\ SamplerVarsUnchanged

\* The caller drops the value.
Discard ==
    /\ ret.op # "none"
    /\ ret' = NoRet
    /\ SamplerVarsUnchanged

(* ---------------------------- specifications --------------------------- *)

NoResult == [trials |-> 0, collisions |-> 0, percent |-> [num |-> 0, den |-> 1]]

InitWith(files) ==
    /\ file \in files
    /\ pcMain = "load"
    /\ mainIdx = 0
    /\ word_db = NoDb
    /\ wpc = [w \in Workers |-> "idle"]
    /\ engine = [w \in Workers |-> NoEngine]
    /\ nickname_db = [w \in Workers |-> {}]
    /\ tries = [w \in Workers |-> 0]
    /\ num_collisions = [w \in Workers |-> 0]
    /\ test_results = [w \in Workers |-> NoResult]
    /\ logged = <<>>
    /\ lastDraw = [w \in Workers |-> NoDraw]
    /\ popSnapshot = [w \in Workers |-> {}]
    /\ trialDrawn = [w \in Workers |-> <<>>]
    /\ ret = NoRet

Init == InitWith(MainFiles)

Worker(w) == Start(w) \/ Populate(w) \/ BeginTrial(w) \/ Trial(w) \/ Finish(w)

Next == Load \/ Spawn \/ Join \/ Report \/ (\E w \in Workers : Worker(w))

Spec == Init /\ [][Next]_vars

InitLoad == InitWith(LoadFiles)

SpecLoad == InitLoad /\ [][Load]_vars

InitSampler == InitWith(SamplerFiles)

NextSampler ==
    Load \/ CallSampleWord \/ CallSampleAndMangleWord \/ CallSampleNickname \/ Discard

SpecSampler == InitSampler /\ [][NextSampler]_vars

(* ------------------------- claims on the sampler ----------------------- *)

RECURSIVE SumLen(_)
SumLen(p) == IF p = <<>> THEN 0 ELSE Len(Head(p)) + SumLen(Tail(p))

\* The buckets min_len..max_len laid end to end.
RECURSIVE Flattened(_, _, _)
Flattened(db, min_len, max_len) ==
    IF min_len > max_len THEN <<>>
    ELSE db[min_len] \o Flattened(db, min_len + 1, max_len)

\* Every word of bucket L has length L.
BucketsByLength(db) ==
    \A L \in DOMAIN db : \A k \in 1..Len(db[L]) : Len(db[L][k]) = L

\* C1: with the options {8, 8, 3, 8}, over a corpus whose buckets hold words
\* of the bucket's length, sample_nickname either throws (no eligible word)
\* or returns a nickname of length in [min_len, max_len]: the budget never
\* wraps, and the pieces' lengths sum to the drawn length.
C1_NicknameLength ==
    (ret.op = "sample_nickname" /\ BucketsByLength(word_db)) =>
        /\ ret.r.status \in {"ok", "throw"}
        /\ ret.r.chance <= ret.r.target
        /\ SumLen(ret.r.pieces) + ret.r.chance = ret.r.target
        /\ ret.r.status = "ok" =>
              /\ Len(ret.r.val) >= SAMPLE_NICKNAME_OPT.min_len
              /\ Len(ret.r.val) <= SAMPLE_NICKNAME_OPT.max_len
              /\ Len(ret.r.val) = 8
              /\ SumLen(ret.r.pieces) = ret.r.target

\* A nickname of several pieces, the last of random characters.
C1_Witness ==
    /\ ret.op = "sample_nickname" /\ ret.r.status = "ok"
    /\ Len(ret.r.pieces) = 3
    /\ Len(ret.r.val) = 8

\* C4: sample_word over a range of buckets that hold no word throws without
\* drawing from the engine, and returns no word.
C4_EmptyRangeThrows ==
    (ret.op = "sample_word" /\ Flattened(word_db, ret.min_len, ret.max_len) = <<>>) =>
        /\ ret.r.status = "throw"
        /\ ret.r.e = ret.e
        /\ "val" \notin DOMAIN ret.r

\* An empty range inside a corpus that has words elsewhere.
C4_Witness ==
    /\ ret.op = "sample_word" /\ ret.r.status = "throw"
    /\ ret.min_len < ret.max_len
    /\ \E L \in DOMAIN word_db : word_db[L] # <<>>

\* C5: the piece sample_and_mangle_word returns has the sampled word's
\* length; the positions replaced are pairwise distinct, lie in the word, are
\* round(length / 2.7) many, which is at most the length; every other
\* position keeps its character.
C5_MangleKeepsLength ==
    (ret.op = "sample_and_mangle_word" /\ ret.r.status # "throw") =>
        /\ ret.r.status = "ok"
        /\ Len(ret.r.val) = Len(ret.r.word)
        /\ \A i, j \in 1..Len(ret.r.hits) : i # j => ret.r.hits[i] # ret.r.hits[j]
        /\ \A i \in 1..Len(ret.r.hits) : ret.r.hits[i] \in 0..(Len(ret.r.word) - 1)
        /\ 2 * (27 * Len(ret.r.hits) - 10 * Len(ret.r.word)) <= 27
        /\ 2 * (10 * Len(ret.r.word) - 27 * Len(ret.r.hits)) <= 27
        /\ Len(ret.r.hits) <= Len(ret.r.word)
        /\ \A k \in 1..Len(ret.r.word) :
              (\A i \in 1..Len(ret.r.hits) : ret.r.hits[i] # k - 1) =>
                  ret.r.val[k] = ret.r.word[k]

\* An eight letter word with three positions replaced, the first among them.
C5_Witness ==
    /\ ret.op = "sample_and_mangle_word" /\ ret.r.status = "ok"
    /\ Len(ret.r.word) = 8 /\ Len(ret.r.hits) = 3
    /\ \E i \in 1..3 : ret.r.hits[i] = 0
    /\ ret.r.val # ret.r.word

\* The index sample_word draws in the call ret records.
DrawnIndex ==
    Uniform(0, Len(Flattened(word_db, ret.min_len, ret.max_len)) - 1, EngineNext(ret.e).val)

\* C6: over a range with at least one word, sample_word returns the word at
\* the drawn index of the buckets min_len..max_len laid end to end; the walk
\* ends in a bucket of the range and the word's length lies in the range.
C6_WordAtIndex ==
    (ret.op = "sample_word" /\ Flattened(word_db, ret.min_len, ret.max_len) # <<>>) =>
        /\ ret.r.status = "ok"
        /\ ret.r.val = Flattened(word_db, ret.min_len, ret.max_len)[DrawnIndex + 1]
        /\ ret.r.it >= ret.min_len /\ ret.r.it <= ret.max_len
        /\ Len(ret.r.val) >= ret.min_len /\ Len(ret.r.val) <= ret.max_len

\* A word found after the walk has passed an earlier bucket of the range
\* that holds words.
C6_Witness ==
    /\ ret.op = "sample_word" /\ ret.r.status = "ok"
    /\ ret.r.it > ret.min_len
    /\ word_db[ret.min_len] # <<>>
    /\ DrawnIndex >= Len(word_db[ret.min_len])

(* --------------------------- claims on the load ------------------------ *)

\* The entries of a file: the byte runs its '\n's separate, the run after
\* the last '\n' included when it is not empty.
RECURSIVE EntriesFrom(_, _, _)
EntriesFrom(f, pos, cur) ==
    IF pos > Len(f) THEN (IF cur = <<>> THEN <<>> ELSE <<cur>>)
    ELSE IF f[pos] = NL THEN <<cur>> \o EntriesFrom(f, pos + 1, <<>>)
    ELSE EntriesFrom(f, pos + 1, Append(cur, f[pos]))

Entries(f) == EntriesFrom(f, 1, <<>>)

\* An entry whose length without its first and last character is in [0, 12].
InRange(entry) == Len(entry) >= 2 /\ Len(entry) - 2 <= MAX_NICKNAME_LEN

Stripped(entry) == SubSeq(entry, 2, Len(entry) - 1)

InBucket(db, word) == \E k \in 1..Len(db[Len(word)]) : db[Len(word)][k] = word

\* C9: after load_word_db every word of bucket L has length L, and every
\* entry of the file whose stripped length is in [0, 12] is in the corpus.
C9_EveryEntryLoaded ==
    (pcMain = "spawn") =>
        /\ BucketsByLength(word_db)
        /\ \A i \in 1..Len(Entries(file.bytes)) :
              InRange(Entries(file.bytes)[i]) => InBucket(word_db, Stripped(Entries(file.bytes)[i]))

(* ------------------------ claims on the experiments -------------------- *)

Size(w) == Cardinality(nickname_db[w])

C2_Sizes ==
    \A w \in Workers :
        /\ Size(w) <= NUM_INITIAL_NICKNAMES
        /\ wpc[w] \in {"trial", "done"} =>
              /\ Size(w) = NUM_INITIAL_NICKNAMES
              /\ Cardinality(popSnapshot[w]) = NUM_INITIAL_NICKNAMES
        /\ (wpc[w] = "populate" /\ lastDraw[w].phase = "populate" /\ lastDraw[w].known) =>
              Size(w) < NUM_INITIAL_NICKNAMES

C2_Step ==
    \A w \in Workers :
        /\ (wpc[w] = "populate" /\ wpc'[w] # "populate") => Size(w) = NUM_INITIAL_NICKNAMES
        /\ wpc[w] = "populate" =>
              /\ nickname_db[w] \subseteq nickname_db'[w]
              /\ Cardinality(nickname_db'[w]) <= Size(w) + 1
        /\ (lastDraw'[w] # lastDraw[w] /\ lastDraw'[w].phase = "populate") =>
              /\ lastDraw'[w].val \in nickname_db'[w]
              /\ lastDraw'[w].known => nickname_db'[w] = nickname_db[w]
              /\ ~lastDraw'[w].known => Cardinality(nickname_db'[w]) = Size(w) + 1

\* C2: in every variant the population loop is left only with exactly
\* NUM_INITIAL_NICKNAMES distinct nicknames in nickname_db; a draw that is in
\* the set already leaves the set as it is and the loop running; the size
\* never exceeds the target.
C2_PopulationTarget == []C2_Sizes /\ [][C2_Step]_vars

\* A worker still populating after a draw that was in its set already.
C2_Witness ==
    \E w \in Workers :
        /\ wpc[w] = "populate" /\ lastDraw[w].phase = "populate" /\ lastDraw[w].known
        /\ Size(w) = 1

\* The trial draws of w that are in the set the population loop left.
Hits(w) == Cardinality({i \in 1..Len(trialDrawn[w]) : trialDrawn[w][i] \in popSnapshot[w]})

\* C3: the trial loop makes exactly NUM_TRIES draws and leaves nickname_db
\* as the population loop left it; the collisions reported are the draws
\* that are in that set, between 0 and NUM_TRIES, 0 for an empty set; the
\* trials reported are NUM_TRIES.
C3_TrialCounts ==
    \A w \in Workers :
        /\ wpc[w] \in {"trial", "done"} =>
              /\ nickname_db[w] = popSnapshot[w]
              /\ Len(trialDrawn[w]) = tries[w]
              /\ tries[w] <= NUM_TRIES
              /\ num_collisions[w] = Hits(w)
        /\ wpc[w] = "done" =>
              /\ Len(trialDrawn[w]) = NUM_TRIES
              /\ test_results[w].trials = NUM_TRIES
              /\ test_results[w].collisions = Hits(w)
              /\ test_results[w].collisions >= 0
              /\ test_results[w].collisions <= NUM_TRIES
              /\ popSnapshot[w] = {} => test_results[w].collisions = 0
        /\ wpc[w] # "done" => test_results[w] = NoResult

\* A worker that is done with some of its trial draws in the set, not all.
C3_Witness ==
    \E w \in Workers :
        /\ wpc[w] = "done"
        /\ test_results[w].collisions > 0
        /\ test_results[w].collisions < NUM_TRIES

C7_Joined ==
    /\ pcMain \in {"report", "exit"} => \A w \in Workers : wpc[w] = "done"
    /\ pcMain \in {"spawn", "join", "report", "exit"} => logged[1] = EnvInfo(word_db)
    /\ pcMain \in {"load", "spawn", "join", "report"} => Len(logged) <= 1
    /\ pcMain = "exit" =>
          /\ Len(logged) = 1 + Cardinality(Workers)
          /\ \A w \in Workers : logged[w + 2] = test_results[w] /\ logged[w + 2] # NoResult
    /\ (pcMain = "join" /\ wpc[mainIdx] # "done") =>
          wpc[mainIdx] \in {"start", "populate", "trial"}
    /\ (pcMain = "join" /\ \A w \in Workers : wpc[w] = "done") => ENABLED Join
    /\ pcMain = "report" => ENABLED Report

C7_Step == pcMain # "load" => word_db' = word_db

\* C7: with the four workers running concurrently, no step after the load
\* changes the corpus (its bucket sizes stay those logged at the start); the
\* program does not deadlock: the worker main waits for in a join is running,
\* with every worker done the join returns and the report follows; the
\* results are logged only after all four workers are done.
C7_Concurrent == []C7_Joined /\ [][C7_Step]_vars

\* main has exited after the four workers ran.
C7_Witness ==
    /\ pcMain = "exit"
    /\ \A w \in Workers : wpc[w] = "done" /\ Len(trialDrawn[w]) = NUM_TRIES
    /\ \E L \in DOMAIN word_db : word_db[L] # <<>>

\* The states of the engines the experiments can pass to sample_nickname.
EngineStates ==
    {[seed |-> seed, pos |-> pos, bits |-> bits] :
        seed \in MainSeeds, pos \in 0..2, bits \in {32, 64}}

\* What sample_nickname can do over db: a result for every engine state.
Outcomes(db) == {sample_nickname(e, db, SAMPLE_NICKNAME_OPT) : e \in EngineStates}

\* The nicknames sample_nickname can return over db.
NicknameSpace(db) == {r.val : r \in {s \in Outcomes(db) : s.status = "ok"}}

\* Whether sample_nickname can fail over db.
CanThrow(db) == \E s \in Outcomes(db) : s.status # "ok"

\* The corpora main can load, and for each what sample_nickname can do over it.
LoadedDbs == {load_word_db(f.bytes) : f \in {g \in MainFiles : g.open}}

SpaceOf == [db \in LoadedDbs |-> NicknameSpace(db)]

ThrowsOver == [db \in LoadedDbs |-> CanThrow(db)]

Loaded == pcMain \in {"spawn", "join", "report", "exit", "terminated"}

SmallSpace == Loaded /\ Cardinality(SpaceOf[word_db]) < NUM_INITIAL_NICKNAMES

\* C8 as claimed: a worker that has reached its target runs its trials to
\* the end, and over a corpus that yields fewer than NUM_INITIAL_NICKNAMES
\* nicknames every worker loops in its population loop for ever.
C8_LoopsForEver ==
    /\ \A w \in Workers : wpc[w] = "done" => tries[w] = NUM_TRIES
    /\ SmallSpace =>
          /\ pcMain \in {"spawn", "join"}
          /\ \A w \in Workers : wpc[w] \in {"idle", "start", "populate"}

\* C8 as amended: a worker that has reached its target and is done has made
\* its NUM_TRIES trials; over a corpus that yields fewer than
\* NUM_INITIAL_NICKNAMES nicknames no worker leaves its population loop (no
\* trial is made, no result written, main's join does not return), and the
\* loop runs for ever when no draw can throw: when one can, the exception
\* terminates the process.
C8_NeverLeavesPopulation ==
    /\ \A w \in Workers :
          /\ wpc[w] = "done" => tries[w] = NUM_TRIES /\ Len(trialDrawn[w]) = NUM_TRIES
          /\ wpc[w] = "trial" => Size(w) = NUM_INITIAL_NICKNAMES
    /\ SmallSpace =>
          /\ pcMain \in {"spawn", "join", "terminated"}
          /\ pcMain = "terminated" => ThrowsOver[word_db]
          /\ pcMain = "join" => mainIdx = 0
          /\ \A w \in Workers :
                /\ wpc[w] \in {"idle", "start", "populate"}
                /\ tries[w] = 0 /\ trialDrawn[w] = <<>>
                /\ test_results[w] = NoResult
                /\ wpc[w] = "populate" => PopulationContinues(w)

\* A worker looping over a corpus that yields one nickname only.
C8_Witness ==
    /\ SmallSpace /\ SpaceOf[word_db] # {} /\ ~ThrowsOver[word_db]
    /\ pcMain = "join"
    /\ \E w \in Workers :
          /\ wpc[w] = "populate" /\ lastDraw[w].phase = "populate" /\ lastDraw[w].known
          /\ nickname_db[w] = SpaceOf[word_db]

C10_Engines ==
    \A w \in Workers :
        /\ (Reuse(w) /\ wpc[w] \in {"populate", "trial", "done"}) =>
              /\ engine[w] # NoEngine
              /\ engine[w].bits = Bits(w)
        /\ (Reuse(w) /\ lastDraw[w].phase # "none") =>
              /\ ~lastDraw[w].seeded
              /\ lastDraw[w].e.seed = engine[w].seed
        /\ (~Reuse(w) /\ lastDraw[w].phase # "none") =>
              /\ lastDraw[w].seeded
              /\ lastDraw[w].e.pos = 0
              /\ lastDraw[w].e.bits = Bits(w)

C10_Step ==
    \A w \in Workers :
        /\ (Reuse(w) /\ wpc[w] \in {"populate", "trial", "done"}) =>
              engine'[w].seed = engine[w].seed
        /\ (Reuse(w) /\ lastDraw'[w] # lastDraw[w]) => lastDraw'[w].e = engine[w]
        /\ (Reuse(w) /\ wpc[w] = "start" /\ wpc'[w] = "populate") =>
              engine'[w].pos = 0 /\ engine'[w].seed \in MainSeeds
        /\ (~Reuse(w) /\ lastDraw'[w] = lastDraw[w]) => engine'[w] = engine[w]

\* C10: case01 and case03 make and seed one engine, before the population
\* loop, and every draw of both loops takes the engine as the draw before
\* left it; in case02 and case04 every draw of both loops takes an engine
\* made and seeded in the loop body for that draw, and no engine is seeded
\* but for a draw.
C10_EngineLifecycle == []C10_Engines /\ [][C10_Step]_vars

\* A reuse worker whose last trial drew from the engine as earlier draws
\* left it, and a recreate worker, done, whose last trial drew from an engine
\* seeded for it.
C10_Witness ==
    \E w1, w2 \in Workers :
        /\ Reuse(w1) /\ ~Reuse(w2)
        /\ lastDraw[w1].phase = "trial" /\ lastDraw[w1].e.pos # 0 /\ ~lastDraw[w1].seeded
        /\ wpc[w2] = "done"
        /\ lastDraw[w2].phase = "trial" /\ lastDraw[w2].e.pos = 0 /\ lastDraw[w2].seeded

====
